---- MODULE Spec2Model ----
(***************************************************************************)
(* A model of the puzzle_net grid (src/src/game.rs): the Cell value type,  *)
(* the Game grid with its accessors, and the generator Game::random_valid. *)
(*                                                                         *)
(* Spec     : one run of Game::random_valid(width, height), one action per *)
(*            iteration of the drain loop and per pass of the outer loop.  *)
(* SpecApi  : the public accessors of Game applied to a fresh Game::new.   *)
(* SpecQuery: the read-only queries of Game applied to drawn grids.        *)
(* SpecCell : the pure functions of CellOrientation and Cell.              *)
(***************************************************************************)
EXTENDS Integers, Sequences, FiniteSets, TLC

VARIABLES
    width,      \* Game.width
    height,     \* Game.height
    grid,       \* Game.grid : Vec<Cell>, element i of the Vec is grid[i + 1]
    queue,      \* the local VecDeque of random_valid
    pc,         \* where the program is: "run", "done", a panic, or "api"
    last,       \* the call made by the latest step: its inputs and its result
    repairs,    \* how many times the repair branch has run (saturating)
    mark,       \* number of unlocked cells when the latest repair ran
    nops        \* number of calls made so far (SpecApi, SpecQuery)

vars == <<width, height, grid, queue, pc, last, repairs, mark, nops>>

----------------------------------------------------------------------------
(* Bounds of the model *)

\* random_valid is run on every board with at most MaxCells cells
MaxCells == 9
\* the accessors are called on boards of at most ApiMaxDim columns and rows
ApiMaxDim == 2
\* at most MaxOps accessor calls (SpecApi), or queries (SpecQuery), are made
\* on a board
MaxOps == 2
\* the queries are called on boards of at most QueryMaxDim columns and rows
QueryMaxDim == 3
\* and of at most QueryMaxCells cells
QueryMaxCells == 6
\* at most MaxChain calls of rotate and reverse are applied in a row
MaxChain == 4

----------------------------------------------------------------------------
(* enum CellVersion, enum CellOrientation: the discriminants *)

Single == 0
Angle == 1
Line == 2
Triple == 3

North == 0
East == 1
South == 2
West == 3

CellVersion == {Single, Angle, Line, Triple}
CellOrientation == {North, East, South, West}
\* CellOrientation::iter(): the variants in declaration order
OrientationIter == <<North, East, South, West>>
\* CellVersion::iter()
VersionIter == <<Single, Angle, Line, Triple>>

(* Option<T>: None is the empty sequence, Some(v) the sequence <<v>>.  An   *)
(* iterator's filter_map is then the concatenation of the closure's results *)
(* in the order of the iteration.                                           *)
None == <<>>
Some(v) == <<v>>

Range(s) == {s[i] : i \in DOMAIN s}

\* what a step records in the history variable last
Call(op, x, y, arg, ret) ==
    [op |-> op, x |-> x, y |-> y, arg |-> arg, ret |-> ret, before |-> <<>>]

----------------------------------------------------------------------------
(* impl CellOrientation *)

\* rotate without the reduction modulo 4
rotate_nomod(self, direction) == self + direction

rotate(self, direction) == (self + direction) % 4

shift(self) ==
    CASE self = North -> <<0, 1>>
      [] self = East -> <<1, 0>>
      [] self = South -> <<0, -1>>
      [] self = West -> <<-1, 0>>

reverse(self) == rotate(self, 2)

step_from(self, x, y) ==
    LET nx == x + shift(self)[1]
        ny == y + shift(self)[2]
    IN  IF nx >= 0 /\ ny >= 0 THEN Some(<<nx, ny>>) ELSE None

----------------------------------------------------------------------------
(* struct Cell, impl Cell *)

Cell(v, o, l, p) == [version |-> v, orientation |-> o, locked |-> l, powered |-> p]

\* the match of Cell::connects: the shape's directions before rotation
base_connects(version) ==
    CASE version = Single -> <<North>>
      [] version = Angle -> <<North, East>>
      [] version = Line -> <<North, South>>
      [] version = Triple -> <<East, South, West>>

\* connects_of without the rotation by the orientation
connects_of_unrotated(version, orientation) == base_connects(version)

\* Cell::connects: .iter().map(|v| v.rotate(self.orientation)).collect()
connects_of(version, orientation) ==
    [i \in DOMAIN base_connects(version) |->
        rotate(base_connects(version)[i], orientation)]

\* connects_of tabulated over the 16 (version, orientation) pairs
ConnTable == [v \in CellVersion |-> [o \in CellOrientation |-> connects_of(v, o)]]

connects(self) == ConnTable[self.version][self.orientation]

\* the closure of matches_constraints on one (dir, connects) pair
matches_one(cell_connections, dir, must) ==
    IF must
    THEN \E j \in DOMAIN cell_connections : cell_connections[j] = dir
    ELSE \A j \in DOMAIN cell_connections : cell_connections[j] # dir

matches_constraints(self, constraints) ==
    \A i \in DOMAIN constraints :
        matches_one(connects(self), constraints[i][1], constraints[i][2])

\* Cell::all_possible: iproduct!(CellVersion::iter(), CellOrientation::iter())
\* item k pairs version (k - 1) / 4 (outer) with orientation (k - 1) % 4 (inner)
all_possible ==
    [k \in 1..16 |->
        Cell(VersionIter[((k - 1) \div 4) + 1], OrientationIter[((k - 1) % 4) + 1],
             FALSE, FALSE)]

\* the candidates among which random_that_matches_constraints chooses; the
\* expect panics when there is none
matching(constraints) ==
    {c \in Range(all_possible) : matches_constraints(c, constraints)}

----------------------------------------------------------------------------
(* struct Game, impl Game.  The operators take the grid Vec as g; width    *)
(* and height are the fields of the same Game.                             *)

\* Game::new
new_grid(w, h) == [i \in 1..(w * h) |-> Cell(Single, North, FALSE, FALSE)]

\* Vec::get / Vec::get_mut on the flat index
vec_get(g, i) == IF i + 1 \in DOMAIN g THEN Some(g[i + 1]) ELSE None

get_cell(g, x, y) ==
    IF x >= width \/ y >= height THEN None ELSE vec_get(g, x + width * y)

\* Result of a mutator: the grid afterwards and the value returned
Res(g, r) == [grid |-> g, ret |-> r]

set_cell(g, x, y, cell) ==
    IF get_cell(g, x, y) # None
    THEN Res([g EXCEPT ![x + width * y + 1] = cell], "Ok")
    ELSE Res(g, "InvalidCell")

\* get_mut_cell: Ok(index of the cell) or Err(InvalidCell)
get_mut_cell(g, x, y) ==
    IF vec_get(g, x + width * y) # None THEN Some(x + width * y + 1) ELSE None

\* the body of get_neighbor_at_direction, s being direction.step_from(x, y)
neighbor_at_step(g, s) ==
    IF s # None THEN get_cell(g, s[1][1], s[1][2]) ELSE None

get_neighbor_at_direction(g, x, y, direction) ==
    neighbor_at_step(g, step_from(direction, x, y))

\* the closure of get_neighbors
neighbor_pair(dir, n) == IF n # None THEN Some(<<dir, n[1]>>) ELSE None

neighbor_entry(g, x, y, dir) ==
    neighbor_pair(dir, get_neighbor_at_direction(g, x, y, dir))

\* filter_map over CellOrientation::iter(): North, East, South, West
get_neighbors(g, x, y) ==
    neighbor_entry(g, x, y, North) \o neighbor_entry(g, x, y, East)
        \o neighbor_entry(g, x, y, South) \o neighbor_entry(g, x, y, West)

\* get_cell(x, y).unwrap() fails on None: the call panics
get_non_locked_connections_panics(g, x, y) == get_cell(g, x, y) = None

\* non_locked_pos without the test !neigh.locked
non_locked_pos_any(x, y, dir, neigh) ==
    IF neigh # None THEN Some(step_from(dir, x, y)[1]) ELSE None

\* non_locked_pos yielding no position
non_locked_pos_none(x, y, dir, neigh) == None

\* the closure of get_non_locked_connections
non_locked_pos(x, y, dir, neigh) ==
    IF neigh # None
    THEN IF ~neigh[1].locked THEN Some(step_from(dir, x, y)[1]) ELSE None
    ELSE None

non_locked_step(g, x, y, dir) ==
    non_locked_pos(x, y, dir, get_neighbor_at_direction(g, x, y, dir))

RECURSIVE non_locked_over(_, _, _, _)
non_locked_over(g, x, y, dirs) ==
    IF dirs = <<>> THEN <<>>
    ELSE non_locked_step(g, x, y, Head(dirs)) \o non_locked_over(g, x, y, Tail(dirs))

get_non_locked_connections(g, x, y) ==
    non_locked_over(g, x, y, connects(get_cell(g, x, y)[1]))

\* constraint_from comparing d, not d.reverse(), with dir
constraint_from_no_reverse(dir, c) ==
    IF c # None
    THEN IF c[1].locked
         THEN Some(<<dir, \E d \in Range(connects(c[1])) : d = dir>>)
         ELSE None
    ELSE Some(<<dir, FALSE>>)

\* constraint_from emitting nothing where there is no neighbour
constraint_from_open_walls(dir, c) ==
    IF c # None
    THEN IF c[1].locked
         THEN Some(<<dir, \E d \in Range(connects(c[1])) : reverse(d) = dir>>)
         ELSE None
    ELSE None

\* constraint_from without the test of c.locked
constraint_from_ignoring_lock(dir, c) ==
    IF c # None
    THEN Some(<<dir, \E d \in Range(connects(c[1])) : reverse(d) = dir>>)
    ELSE Some(<<dir, FALSE>>)

\* the closure of get_cell_constraints, c being the neighbour in direction dir
constraint_from(dir, c) ==
    IF c # None
    THEN IF c[1].locked
         THEN Some(<<dir, \E d \in Range(connects(c[1])) : reverse(d) = dir>>)
         ELSE None
    ELSE Some(<<dir, FALSE>>)

constraint_entry(g, x, y, dir) ==
    constraint_from(dir, get_neighbor_at_direction(g, x, y, dir))

get_cell_constraints(g, x, y) ==
    constraint_entry(g, x, y, North) \o constraint_entry(g, x, y, East)
        \o constraint_entry(g, x, y, South) \o constraint_entry(g, x, y, West)

\* set_cell_orientation without the test of cell.locked
set_cell_orientation_no_lock_test(g, x, y, orientation) ==
    LET m == get_mut_cell(g, x, y)
    IN  IF m = None THEN Res(g, "InvalidCell")
        ELSE Res([g EXCEPT ![m[1]].orientation = orientation], "Ok")

set_cell_orientation(g, x, y, orientation) ==
    LET m == get_mut_cell(g, x, y)
    IN  IF m = None THEN Res(g, "InvalidCell")
        ELSE IF g[m[1]].locked THEN Res(g, "CellIsLocked")
        ELSE Res([g EXCEPT ![m[1]].orientation = orientation], "Ok")

\* set_lock with the test of cell.locked that set_cell_orientation makes
set_lock_refusing_locked(g, x, y, lock) ==
    LET m == get_mut_cell(g, x, y)
    IN  IF m = None THEN Res(g, "InvalidCell")
        ELSE IF g[m[1]].locked THEN Res(g, "CellIsLocked")
        ELSE Res([g EXCEPT ![m[1]].locked = lock], "Ok")

set_lock(g, x, y, lock) ==
    LET m == get_mut_cell(g, x, y)
    IN  IF m = None THEN Res(g, "InvalidCell")
        ELSE Res([g EXCEPT ![m[1]].locked = lock], "Ok")

power_cell(g, x, y) ==
    LET m == get_mut_cell(g, x, y)
    IN  IF m = None THEN Res(g, "InvalidCell")
        ELSE Res([g EXCEPT ![m[1]].powered = TRUE], "Ok")

\* Game::cells: iproduct!(0..height, 0..width) mapped by |(x, y)| to
\* (x, y, get_cell(x, y)); the unwrap of a None panics when the item is drawn
\* item k is the pair (a, b) with a in 0..height (outer) and b in 0..width (inner)
cells_items(g) ==
    [k \in 1..(height * width) |->
        LET a == (k - 1) \div width
            b == (k - 1) % width
        IN  <<a, b, get_cell(g, a, b)>>]

cells_panics(g) ==
    \E k \in 1..(height * width) :
        get_cell(g, (k - 1) \div width, (k - 1) % width) = None

\* the items of Game::cells when no unwrap fails
cells(g) ==
    [k \in 1..(height * width) |->
        <<(k - 1) \div width, (k - 1) % width,
          get_cell(g, (k - 1) \div width, (k - 1) % width)[1]>>]

----------------------------------------------------------------------------
(* Game::random_valid *)

Unlocked(g) == Cardinality({i \in DOMAIN g : ~g[i].locked})

\* soft_entry emitting (dir, true) where the code emits (dir, false)
soft_entry_forcing(q, x, y, n) ==
    IF ~n[2].locked /\ (\E i \in DOMAIN q : q[i] = step_from(n[1], x, y)[1])
    THEN Some(<<n[1], TRUE>>)
    ELSE None

\* the soft constraints of the drain loop: q is the queue after the pop
soft_entry(q, x, y, n) ==
    IF ~n[2].locked /\ (\E i \in DOMAIN q : q[i] = step_from(n[1], x, y)[1])
    THEN Some(<<n[1], FALSE>>)
    ELSE None

RECURSIVE soft_over(_, _, _, _)
soft_over(q, x, y, ns) ==
    IF ns = <<>> THEN <<>>
    ELSE soft_entry(q, x, y, Head(ns)) \o soft_over(q, x, y, Tail(ns))

soft_constraints(g, q, x, y) == soft_over(q, x, y, get_neighbors(g, x, y))

\* drain_constraints without the soft constraints
drain_constraints_hard_only(g, q, x, y) == get_cell_constraints(g, x, y)

drain_constraints(g, q, x, y) ==
    get_cell_constraints(g, x, y) \o soft_constraints(g, q, x, y)

\* find_pluggable without the test nc.version != CellVersion::Triple
RECURSIVE find_pluggable_any_locked(_, _, _)
find_pluggable_any_locked(x, y, ns) ==
    IF ns = <<>> THEN None
    ELSE IF Head(ns)[2].locked
         THEN Some(<<x, y, Head(ns)[1]>>)
         ELSE find_pluggable_any_locked(x, y, Tail(ns))

\* the find_map of the scan: the first neighbour of (x, y), in the order of
\* get_neighbors, that is locked and not a Triple
RECURSIVE find_pluggable(_, _, _)
find_pluggable(x, y, ns) ==
    IF ns = <<>> THEN None
    ELSE IF Head(ns)[2].locked /\ Head(ns)[2].version # Triple
         THEN Some(<<x, y, Head(ns)[1]>>)
         ELSE find_pluggable(x, y, Tail(ns))

first_pluggable(g, x, y) == find_pluggable(x, y, get_neighbors(g, x, y))

\* the items that reach choose() in the scan
scan_entry(g, it) ==
    IF it[3].locked THEN None ELSE first_pluggable(g, it[1], it[2])

RECURSIVE scan_over(_, _)
scan_over(g, items) ==
    IF items = <<>> THEN <<>>
    ELSE scan_entry(g, Head(items)) \o scan_over(g, Tail(items))

\* a scan that finds nothing: the repair pass left out
repair_candidates_none(g) == <<>>

repair_candidates(g) == scan_over(g, cells(g))

\* repair_constraints without the pushed (dir.reverse(), true)
repair_constraints_no_force(g, lx, ly, dir) == get_cell_constraints(g, lx, ly)

\* repair_constraints pushing (dir, true) instead of (dir.reverse(), true)
repair_constraints_no_reverse(g, lx, ly, dir) ==
    get_cell_constraints(g, lx, ly) \o <<<<dir, TRUE>>>>

\* the constraints of the repaired cell (lx, ly), once unlocked
repair_constraints(g, lx, ly, dir) ==
    get_cell_constraints(g, lx, ly) \o <<<<reverse(dir), TRUE>>>>

seed(w, h) == <<w \div 2, h \div 2>>

Init ==
    /\ width \in 1..MaxCells
    /\ height \in 1..MaxCells
    /\ width * height <= MaxCells
    /\ grid = new_grid(width, height)
    /\ queue = <<seed(width, height)>>
    /\ pc = "run"
    /\ last = Call("new", 0, 0, <<>>, "Ok")
    /\ repairs = 0
    /\ mark = 0
    /\ nops = 0

\* one iteration of `while let Some((x, y)) = queue.pop_front()`
\* (a value is bound with \E v \in {e} where the code binds it with let)
Pop ==
    /\ pc = "run"
    /\ queue # <<>>
    /\ \E x \in {Head(queue)[1]}, y \in {Head(queue)[2]}, q \in {Tail(queue)} :
       \E constraints \in {drain_constraints(grid, q, x, y)} :
       \E cands \in {matching(constraints)} :
           IF cands = {}
           THEN /\ pc' = "NoMatchingConfiguration"
                /\ queue' = q
                /\ last' = Call("pop", x, y, constraints, "NoMatchingConfiguration")
                /\ UNCHANGED grid
           ELSE \E cell \in cands :
                \E r1 \in {set_cell(grid, x, y, cell)} :
                \E r2 \in {set_lock(r1.grid, x, y, TRUE)} :
                    IF r1.ret # "Ok" \/ r2.ret # "Ok"
                       \/ get_non_locked_connections_panics(r2.grid, x, y)
                    THEN /\ pc' = "UnwrapPanic"
                         /\ queue' = q
                         /\ grid' = r2.grid
                         /\ last' = Call("pop", x, y, constraints, "UnwrapPanic")
                    ELSE /\ pc' = "run"
                         /\ grid' = r2.grid
                         /\ queue' = q \o get_non_locked_connections(r2.grid, x, y)
                         /\ last' = Call("pop", x, y, constraints, cell)
    /\ UNCHANGED <<width, height, repairs, mark, nops>>

\* the queue is empty and drawing the items of game.cells() hits an unwrap of None
ScanPanic ==
    /\ pc = "run"
    /\ queue = <<>>
    /\ cells_panics(grid)
    /\ pc' = "UnwrapPanic"
    /\ last' = Call("scan", 0, 0, <<>>, "UnwrapPanic")
    /\ UNCHANGED <<width, height, grid, queue, repairs, mark, nops>>

\* what the repair branch records in last.arg
RepairInfo(x, y, dir, constraints, old) ==
    [orphan |-> <<x, y>>, dir |-> dir, constraints |-> constraints, old |-> old]

\* the queue is empty and the scan chooses (x, y, dir): the repair branch
Repair ==
    /\ pc = "run"
    /\ queue = <<>>
    /\ ~cells_panics(grid)
    /\ \E t \in Range(repair_candidates(grid)) :
       \E x \in {t[1]}, y \in {t[2]}, dir \in {t[3]} :
       \E l \in {step_from(dir, x, y)[1]} :
       \E lx \in {l[1]}, ly \in {l[2]} :
       \E r0 \in {set_lock(grid, lx, ly, FALSE)} :
       \E constraints \in {repair_constraints(r0.grid, lx, ly, dir)} :
       \E info \in {RepairInfo(x, y, dir, constraints, get_cell(grid, lx, ly)[1])} :
       \E cands \in {matching(constraints)} :
            IF r0.ret # "Ok"
            THEN /\ pc' = "UnwrapPanic"
                 /\ last' = Call("repair", lx, ly, info, "UnwrapPanic")
                 /\ UNCHANGED <<grid, queue>>
            ELSE IF cands = {}
            THEN /\ pc' = "NoMatchingConfiguration"
                 /\ grid' = r0.grid
                 /\ last' = Call("repair", lx, ly, info, "NoMatchingConfiguration")
                 /\ UNCHANGED queue
            ELSE \E cell \in cands :
                 \E r1 \in {set_cell(r0.grid, lx, ly, cell)} :
                 \E r2 \in {set_lock(r1.grid, lx, ly, TRUE)} :
                    IF r1.ret # "Ok" \/ r2.ret # "Ok"
                       \/ get_non_locked_connections_panics(r2.grid, lx, ly)
                    THEN /\ pc' = "UnwrapPanic"
                         /\ grid' = r2.grid
                         /\ last' = Call("repair", lx, ly, info, "UnwrapPanic")
                         /\ UNCHANGED queue
                    ELSE /\ pc' = "run"
                         /\ grid' = r2.grid
                         /\ queue' = queue \o get_non_locked_connections(r2.grid, lx, ly)
                         /\ last' = Call("repair", lx, ly, info, cell)
    /\ repairs' = IF repairs <= width * height THEN repairs + 1 ELSE repairs
    /\ mark' = Unlocked(grid)
    /\ UNCHANGED <<width, height, nops>>

\* the queue is empty and the scan finds nothing: break, the game is returned
Break ==
    /\ pc = "run"
    /\ queue = <<>>
    /\ ~cells_panics(grid)
    /\ repair_candidates(grid) = <<>>
    /\ pc' = "done"
    /\ last' = Call("break", 0, 0, <<>>, "Ok")
    /\ UNCHANGED <<width, height, grid, queue, repairs, mark, nops>>

Next == Pop \/ ScanPanic \/ Repair \/ Break

Spec == Init /\ [][Next]_vars

----------------------------------------------------------------------------
(* The accessors of Game, called on a Game::new(width, height) with        *)
(* positions inside the grid and one step beyond it in x and in y.         *)

\* the cells given to set_cell
SetCellInputs == {Cell(Triple, East, TRUE, TRUE), Cell(Angle, South, FALSE, FALSE)}

\* what an accessor call records in last: the call, its result, the grid before
ApiCall(op, x, y, arg, ret) ==
    [op |-> op, x |-> x, y |-> y, arg |-> arg, ret |-> ret, before |-> grid]

InitApi ==
    /\ width \in 1..ApiMaxDim
    /\ height \in 1..ApiMaxDim
    /\ grid = new_grid(width, height)
    /\ queue = <<>>
    /\ pc = "api"
    /\ last = Call("new", 0, 0, <<>>, "Ok")
    /\ repairs = 0
    /\ mark = 0
    /\ nops = 0

ApiFrame ==
    /\ pc = "api"
    /\ nops < MaxOps
    /\ nops' = nops + 1
    /\ UNCHANGED <<width, height, queue, pc, repairs, mark>>

ApiGetCell ==
    /\ ApiFrame
    /\ \E x \in 0..width, y \in 0..height :
        /\ last' = ApiCall("get_cell", x, y, <<>>, get_cell(grid, x, y))
        /\ UNCHANGED grid

ApiSetCell ==
    /\ ApiFrame
    /\ \E x \in 0..width, y \in 0..height, cell \in SetCellInputs :
       \E r \in {set_cell(grid, x, y, cell)} :
        /\ grid' = r.grid
        /\ last' = ApiCall("set_cell", x, y, cell, r.ret)

ApiSetCellOrientation ==
    /\ ApiFrame
    /\ \E x \in 0..width, y \in 0..height, d \in CellOrientation :
       \E r \in {set_cell_orientation(grid, x, y, d)} :
        /\ grid' = r.grid
        /\ last' = ApiCall("set_cell_orientation", x, y, d, r.ret)

ApiSetLock ==
    /\ ApiFrame
    /\ \E x \in 0..width, y \in 0..height, lock \in BOOLEAN :
       \E r \in {set_lock(grid, x, y, lock)} :
        /\ grid' = r.grid
        /\ last' = ApiCall("set_lock", x, y, lock, r.ret)

ApiPowerCell ==
    /\ ApiFrame
    /\ \E x \in 0..width, y \in 0..height :
       \E r \in {power_cell(grid, x, y)} :
        /\ grid' = r.grid
        /\ last' = ApiCall("power_cell", x, y, <<>>, r.ret)

NextApi ==
    ApiGetCell \/ ApiSetCell \/ ApiSetCellOrientation \/ ApiSetLock \/ ApiPowerCell

SpecApi == InitApi /\ [][NextApi]_vars

----------------------------------------------------------------------------
(* The read-only queries of Game (cells, get_cell_constraints), called on  *)
(* grids whose cells are drawn from QueryCellInputs.                       *)

\* the cells a queried grid is made of: a fresh cell and two locked Lines
QueryCellInputs ==
    {Cell(Single, North, FALSE, FALSE), Cell(Line, North, TRUE, FALSE),
     Cell(Line, East, TRUE, FALSE)}

InitQuery ==
    /\ width \in 1..QueryMaxDim
    /\ height \in 1..QueryMaxDim
    /\ width * height <= QueryMaxCells
    /\ grid \in [1..(width * height) -> QueryCellInputs]
    /\ queue = <<>>
    /\ pc = "query"
    /\ last = Call("new", 0, 0, <<>>, <<>>)
    /\ repairs = 0
    /\ mark = 0
    /\ nops = 0

QueryFrame ==
    /\ pc = "query"
    /\ nops < MaxOps
    /\ nops' = nops + 1
    /\ UNCHANGED <<width, height, grid, queue, repairs, mark>>

\* the number of items Game::cells yields before an unwrap fails
cells_yielded(g) ==
    Cardinality({k \in 1..(height * width) :
        \A j \in 1..k : cells_items(g)[j][3] # None})

\* game.cells().collect(): the items in the order of the iterator, or the
\* panic of the first unwrap of None (last.ret then holds the items before it)
QueryCellsCall ==
    /\ QueryFrame
    /\ IF cells_panics(grid)
       THEN /\ pc' = "UnwrapPanic"
            /\ last' = Call("cells", 0, 0, <<>>,
                    [k \in 1..cells_yielded(grid) |->
                        <<cells_items(grid)[k][1], cells_items(grid)[k][2],
                          cells_items(grid)[k][3][1]>>])
       ELSE /\ pc' = "query"
            /\ last' = Call("cells", 0, 0, <<>>, cells(grid))

\* game.get_cell_constraints(x, y) on an in-bounds position
QueryConstraints ==
    /\ QueryFrame
    /\ pc' = "query"
    /\ \E x \in 0..(width - 1), y \in 0..(height - 1) :
        last' = Call("get_cell_constraints", x, y, <<>>,
                     get_cell_constraints(grid, x, y))

NextQuery == QueryCellsCall \/ QueryConstraints

SpecQuery == InitQuery /\ [][NextQuery]_vars

----------------------------------------------------------------------------
(* The pure functions of CellOrientation and Cell: a direction a is drawn, *)
(* rotate and reverse are applied to it one after the other (at most       *)
(* MaxChain times), and connects is called on the 16 configurations.       *)

\* last.x is the direction drawn, last.ret the current value, last.arg the
\* calls applied so far: <<"rotate", b>> or <<"reverse", 2>>
InitCell ==
    /\ width = 1
    /\ height = 1
    /\ grid = new_grid(1, 1)
    /\ queue = <<>>
    /\ pc = "cell"
    /\ \E a \in CellOrientation : last = Call("direction", a, 0, <<>>, a)
    /\ repairs = 0
    /\ mark = 0
    /\ nops = 0

CellFrame ==
    /\ pc = "cell"
    /\ last.op \in {"direction", "rotate", "reverse"}
    /\ UNCHANGED <<width, height, grid, queue, pc, repairs, mark, nops>>

\* last.ret.rotate(b)
CellRotate ==
    /\ CellFrame
    /\ Len(last.arg) < MaxChain
    /\ \E b \in CellOrientation :
        last' = Call("rotate", last.x, b, Append(last.arg, <<"rotate", b>>),
                     rotate(last.ret, b))

\* last.ret.reverse()
CellReverse ==
    /\ CellFrame
    /\ Len(last.arg) < MaxChain
    /\ last' = Call("reverse", last.x, 0, Append(last.arg, <<"reverse", 2>>),
                    reverse(last.ret))

\* c.connects() for one of the 16 configurations, locked or not
CellConnects ==
    /\ CellFrame
    /\ \E c \in Range(all_possible), l \in BOOLEAN :
        last' = Call("connects", 0, 0, [c EXCEPT !.locked = l],
                     connects([c EXCEPT !.locked = l]))

NextCell == CellRotate \/ CellReverse \/ CellConnects

SpecCell == InitCell /\ [][NextCell]_vars

----------------------------------------------------------------------------
(* Vocabulary of the properties *)

Positions == {<<x, y>> : x \in 0..(width - 1), y \in 0..(height - 1)}

CellAt(g, p) == g[p[1] + width * p[2] + 1]

Panicked == pc \in {"UnwrapPanic", "NoMatchingConfiguration"}

AllLocked(g) == \A i \in DOMAIN g : g[i].locked

\* the cell at p has an end pointing in direction d
ConnectsToward(g, p, d) == d \in Range(connects(CellAt(g, p)))

\* q is the position one step from p in direction d, inside the grid
IsStep(p, d, q) == q \in Positions /\ step_from(d, p[1], p[2]) = Some(q)

\* p and q are adjacent and each has an end pointing at the other
Mutual(g, p, q) ==
    \E d \in CellOrientation :
        /\ IsStep(p, d, q)
        /\ ConnectsToward(g, p, d)
        /\ ConnectsToward(g, q, reverse(d))

RECURSIVE Reach(_, _)
Reach(g, S) ==
    IF \E q \in Positions \ S : \E p \in S : Mutual(g, p, q)
    THEN Reach(g, S \cup {q \in Positions : \E p \in S : Mutual(g, p, q)})
    ELSE S

InBounds(x, y) == x < width /\ y < height

----------------------------------------------------------------------------
(* Properties of Game::random_valid (Spec) *)

\* C1: on every board (here: every board of more than one cell, the 1x1 board
\* being C7's), random_valid returns a grid, and every cell of it is locked.
C1_ReturnsAllLocked ==
    /\ (width * height > 1 => ~Panicked)
    /\ (pc = "done" => AllLocked(grid))

\* C2: in a returned grid every cell is reachable from the seed cell
\* (width/2, height/2) through mutual connections.
C2_Connected ==
    pc = "done" => Reach(grid, {seed(width, height)}) = Positions

C2_Witness == pc = "done" /\ width = 3 /\ height = 3 /\ repairs >= 1

\* C3: in a returned grid, if A has an end toward an in-bounds neighbour B,
\* then B has an end toward A.
C3_MutualConnections ==
    pc = "done" =>
        \A p \in Positions, d \in CellOrientation, q \in Positions :
            ConnectsToward(grid, p, d) /\ IsStep(p, d, q)
                => ConnectsToward(grid, q, reverse(d))

C3_Witness == pc = "done" /\ \E i \in DOMAIN grid : grid[i].version = Triple

\* C4: in a returned grid no end of a cell points out of the rectangle, on the
\* lower edges (x = 0, y = 0) or on the upper ones (x = width-1, y = height-1).
C4_NoOffGrid ==
    pc = "done" =>
        \A p \in Positions, d \in CellOrientation :
            ConnectsToward(grid, p, d) => \E q \in Positions : IsStep(p, d, q)

C4_Witness ==
    /\ pc = "done"
    /\ width = 3
    /\ CellAt(grid, <<0, 0>>).version = Angle
    /\ CellAt(grid, <<width - 1, height - 1>>).version = Angle

\* a natural number that bounds the number of steps still to come
Measure ==
    3 * Unlocked(grid)
        + (IF pc # "run" THEN 0 ELSE IF queue = <<>> THEN 2 ELSE 1)

\* C5: random_valid terminates: every step of the loops (a pop, a repair, the
\* break, a panic) lowers Measure, so a run makes finitely many pops and
\* repairs; the repair branch runs at most width*height times; and whenever
\* the drain that follows a repair has emptied the queue, fewer cells are
\* unlocked than when the repair ran.
C5_Terminates ==
    /\ [][Measure' < Measure]_vars
    /\ [](repairs <= width * height)
    /\ [](pc = "run" /\ queue = <<>> /\ repairs > 0 => Unlocked(grid) < mark)

C5_Witness == pc = "done" /\ repairs >= 2

\* C6: on a board of more than one cell, no call of
\* random_that_matches_constraints, from the drain or from the repair, gets a
\* constraint list that none of the 16 configurations satisfies.
C6_NeverNoMatch ==
    width * height > 1 =>
        /\ pc # "NoMatchingConfiguration"
        /\ (last.op = "pop" => matching(last.arg) # {})
        /\ (last.op = "repair" => matching(last.arg.constraints) # {})

C6_Witness ==
    /\ width = 3
    /\ height = 3
    /\ last.op = "repair"
    /\ pc = "run"
    /\ Cardinality(matching(last.arg.constraints)) = 1

\* C7: on the 1x1 board the seed (0,0) gets the four constraints (d, false),
\* no configuration satisfies them, and the run ends in the
\* NoMatchingConfiguration failure without returning a grid.
C7_OneByOneFails ==
    width = 1 /\ height = 1 =>
        \/ pc = "run" /\ queue = <<<<0, 0>>>> /\ ENABLED Pop
        \/ /\ pc = "NoMatchingConfiguration"
           /\ last.op = "pop" /\ last.x = 0 /\ last.y = 0
           /\ last.arg = <<<<North, FALSE>>, <<East, FALSE>>,
                           <<South, FALSE>>, <<West, FALSE>>>>
           /\ \A c \in Range(all_possible) : ~matches_constraints(c, last.arg)

C7_Witness == width = 1 /\ height = 1 /\ pc = "NoMatchingConfiguration"

\* C8: on the board of two horizontally adjacent cells random_valid returns a
\* grid, whose two cells are locked Singles pointing at each other.
C8_TwoCells ==
    width = 2 /\ height = 1 =>
        /\ ~Panicked
        /\ (pc = "done" =>
                /\ AllLocked(grid)
                /\ connects(CellAt(grid, <<0, 0>>)) = <<East>>
                /\ connects(CellAt(grid, <<1, 0>>)) = <<West>>)

\* a constraint list with at most one entry per direction
OnePerDirection(constraints) ==
    \A i, j \in DOMAIN constraints :
        constraints[i][1] = constraints[j][1] => i = j

\* C16: every constraint list given to random_that_matches_constraints has at
\* most one entry per direction: the drain's list (hard entries followed by
\* soft ones) and the repair's list, whose last entry (dir.reverse(), true) is
\* for a direction that get_cell_constraints(lx, ly) left out.
C16_OneEntryPerDirection ==
    /\ (last.op = "pop" => OnePerDirection(last.arg))
    /\ (last.op = "repair" =>
            /\ OnePerDirection(last.arg.constraints)
            /\ last.arg.constraints[Len(last.arg.constraints)]
                    = <<reverse(last.arg.dir), TRUE>>)

\* a pop, after a repair, whose list holds a soft entry (for a neighbour that
\* is unlocked) next to wall and locked-neighbour entries
C16_Witness ==
    /\ last.op = "pop"
    /\ pc = "run"
    /\ repairs >= 1
    /\ Len(last.arg) = 4
    /\ \E i \in DOMAIN last.arg, q \in Positions :
        /\ IsStep(<<last.x, last.y>>, last.arg[i][1], q)
        /\ ~CellAt(grid, q).locked

\* C17: a repair step is taken only when the queue is empty, and its target
\* (lx, ly) is a locked cell, not a Triple, one step in dir from an unlocked
\* cell (x, y).  After the step (lx, ly) is locked, its ends are a strict
\* superset of the ends it had (all are kept, the one toward (x, y) is new),
\* and (x, y) is in the queue.
C17_RepairStep ==
    /\ [][repairs' # repairs =>
            /\ queue = <<>>
            /\ last'.op = "repair"
            /\ ~CellAt(grid, last'.arg.orphan).locked
            /\ IsStep(last'.arg.orphan, last'.arg.dir, <<last'.x, last'.y>>)
            /\ CellAt(grid, <<last'.x, last'.y>>).locked
            /\ CellAt(grid, <<last'.x, last'.y>>).version # Triple
            /\ CellAt(grid, <<last'.x, last'.y>>) = last'.arg.old]_vars
    /\ [](last.op = "repair" =>
            /\ pc = "run"
            /\ CellAt(grid, <<last.x, last.y>>).locked
            /\ Range(connects(last.arg.old))
                    \subseteq Range(connects(CellAt(grid, <<last.x, last.y>>)))
            /\ reverse(last.arg.dir) \notin Range(connects(last.arg.old))
            /\ reverse(last.arg.dir) \in Range(connects(CellAt(grid, <<last.x, last.y>>)))
            /\ \E i \in DOMAIN queue : queue[i] = last.arg.orphan)

\* a repair that turns a Single into a Triple and queues two cells
C17_Witness ==
    /\ last.op = "repair"
    /\ pc = "run"
    /\ last.arg.old.version = Single
    /\ CellAt(grid, <<last.x, last.y>>).version = Triple
    /\ Len(queue) = 2

\* the position one step from p in direction d, on the grid or not
StepTo(p, d) ==
    CASE d = North -> <<p[1], p[2] + 1>>
      [] d = East -> <<p[1] + 1, p[2]>>
      [] d = South -> <<p[1], p[2] - 1>>
      [] d = West -> <<p[1] - 1, p[2]>>

OnGrid(q) == q[1] \in 0..(width - 1) /\ q[2] \in 0..(height - 1)

\* the locked cells that have an end pointing at position q
PointingAt(g, q) ==
    {p \in Positions :
        /\ CellAt(g, p).locked
        /\ \E d \in CellOrientation : IsStep(p, d, q) /\ ConnectsToward(g, p, d)}

\* queue entry i is in bounds, unlocked and occurs once
QueueEntryOk(i) ==
    /\ queue[i] \in Positions
    /\ ~CellAt(grid, queue[i]).locked
    /\ \A j \in DOMAIN queue : queue[j] = queue[i] => i = j

\* a pop takes an unlocked position and locks it; no step unlocks a cell
PopLocksOnce ==
    /\ (pc = "run" /\ queue # <<>> =>
            /\ ~CellAt(grid, Head(queue)).locked
            /\ (pc' = "run" => CellAt(grid', Head(queue)).locked))
    /\ \A i \in DOMAIN grid : grid[i].locked => grid'[i].locked

\* C18 as stated: at every point every queued position is in bounds, unlocked,
\* queued once and has exactly one locked neighbour pointing at it; every
\* popped position is unlocked and each cell is placed by the drain once.
C18_QueueAsStated ==
    /\ [](\A i \in DOMAIN queue :
            QueueEntryOk(i) /\ Cardinality(PointingAt(grid, queue[i])) = 1)
    /\ [][PopLocksOnce]_vars

\* C18, amended: the same, except that the seed, alone in the queue before
\* the first pop, has no locked neighbour pointing at it (no cell is locked).
C18_Queue ==
    /\ [](\A i \in DOMAIN queue :
            /\ QueueEntryOk(i)
            /\ Cardinality(PointingAt(grid, queue[i]))
                    = (IF last.op = "new" THEN 0 ELSE 1))
    /\ [](last.op = "new" => queue = <<seed(width, height)>> /\ Unlocked(grid) = width * height)
    /\ [][PopLocksOnce]_vars

C18_Witness ==
    /\ pc = "run"
    /\ repairs >= 1
    /\ Len(queue) = 3
    /\ last.op = "pop"

\* C19: between steps, every end of a locked cell points at a cell of the
\* grid (none points off-grid); if that cell is locked it has an end pointing
\* back (connections among locked cells are mutual), and if it is unlocked it
\* is in the queue.  So with an empty queue no locked cell points at an
\* unlocked one.
C19_BetweenSteps ==
    \A p \in Positions, d \in CellOrientation :
        CellAt(grid, p).locked /\ ConnectsToward(grid, p, d) =>
            /\ OnGrid(StepTo(p, d))
            /\ IF CellAt(grid, StepTo(p, d)).locked
               THEN ConnectsToward(grid, StepTo(p, d), reverse(d))
               ELSE \E i \in DOMAIN queue : queue[i] = StepTo(p, d)

\* the queue has run empty after a repair and cells are still unlocked
C19_Witness ==
    /\ pc = "run"
    /\ queue = <<>>
    /\ repairs >= 1
    /\ width = 3
    /\ Unlocked(grid) > 0
    /\ Unlocked(grid) < width * height

LockedPositions(g) == {p \in Positions : CellAt(g, p).locked}

\* p and the cell one step in d from it are both in S and point at each other
Linked(g, S, p, d) ==
    /\ p \in S
    /\ StepTo(p, d) \in S
    /\ ConnectsToward(g, p, d)
    /\ ConnectsToward(g, StepTo(p, d), reverse(d))

\* the mutual connections among the locked cells, each counted once (from its
\* southern or western end)
LockedLinks(g) ==
    {e \in Positions \X {North, East} : Linked(g, LockedPositions(g), e[1], e[2])}

\* what is left of S when cells with at most one link inside S are removed
\* again and again: empty exactly when the links inside S form no cycle
RECURSIVE Core(_, _)
Core(g, S) ==
    LET T == {p \in S :
                Cardinality({d \in CellOrientation : Linked(g, S, p, d)}) >= 2}
    IN  IF T = S THEN S ELSE Core(g, T)

\* C20: between steps the mutual connections among locked cells form no
\* cycle (with at least one locked cell they are one fewer than the locked
\* cells: a tree), and a returned grid has exactly width*height - 1 mutual
\* connections.
C20_Tree ==
    /\ Core(grid, LockedPositions(grid)) = {}
    /\ (LockedPositions(grid) # {} =>
            Cardinality(LockedLinks(grid)) = Cardinality(LockedPositions(grid)) - 1)
    /\ (pc = "done" =>
            /\ LockedPositions(grid) = Positions
            /\ Cardinality(LockedLinks(grid)) = width * height - 1)

C20_Witness ==
    /\ pc = "done"
    /\ width = 3
    /\ height = 3
    /\ repairs >= 2
    /\ Cardinality(LockedLinks(grid)) = 8

----------------------------------------------------------------------------
(* Properties of the accessors (SpecApi) *)

\* the flat index of an in-bounds position
Index(x, y) == x + width * y + 1

SameExcept(g, b, i) ==
    DOMAIN g = DOMAIN b /\ \A j \in DOMAIN b : j # i => g[j] = b[j]

\* C9: set_cell_orientation(x, y, d) on an in-bounds position: on a locked
\* cell it returns CellIsLocked and changes nothing; on an unlocked cell it
\* returns Ok and changes the orientation of that cell to d, and nothing else.
C9_SetOrientation ==
    last.op = "set_cell_orientation" /\ InBounds(last.x, last.y) =>
        IF last.before[Index(last.x, last.y)].locked
        THEN last.ret = "CellIsLocked" /\ grid = last.before
        ELSE /\ last.ret = "Ok"
             /\ grid[Index(last.x, last.y)] =
                    [last.before[Index(last.x, last.y)] EXCEPT !.orientation = last.arg]
             /\ SameExcept(grid, last.before, Index(last.x, last.y))

C9_Witness ==
    /\ last.op = "set_cell_orientation"
    /\ InBounds(last.x, last.y)
    /\ last.ret = "CellIsLocked"
    /\ last.arg # last.before[Index(last.x, last.y)].orientation

\* C10: on an out-of-bounds position get_cell returns None and every mutator
\* returns InvalidCell and changes no cell.
C10_OutOfBounds ==
    last.op # "new" /\ ~InBounds(last.x, last.y) =>
        IF last.op = "get_cell"
        THEN last.ret = None
        ELSE last.ret = "InvalidCell" /\ grid = last.before

\* C15: on an in-bounds position set_lock(x, y, b) and power_cell(x, y) return
\* Ok, the cell being locked or not; set_lock changes the locked flag of that
\* cell to b and power_cell its powered flag to true; the other fields of the
\* cell and all other cells are unchanged.
C15_FlagSetters ==
    /\ (last.op = "set_lock" /\ InBounds(last.x, last.y) =>
            /\ last.ret = "Ok"
            /\ grid[Index(last.x, last.y)] =
                    [last.before[Index(last.x, last.y)] EXCEPT !.locked = last.arg]
            /\ SameExcept(grid, last.before, Index(last.x, last.y)))
    /\ (last.op = "power_cell" /\ InBounds(last.x, last.y) =>
            /\ last.ret = "Ok"
            /\ grid[Index(last.x, last.y)] =
                    [last.before[Index(last.x, last.y)] EXCEPT !.powered = TRUE]
            /\ SameExcept(grid, last.before, Index(last.x, last.y)))

C15_Witness ==
    /\ last.op = "set_lock"
    /\ InBounds(last.x, last.y)
    /\ width = 2
    /\ height = 2
    /\ last.before[Index(last.x, last.y)].locked
    /\ last.arg = FALSE
    /\ ~grid[Index(last.x, last.y)].locked

----------------------------------------------------------------------------
(* Properties of the queries (SpecQuery) *)

\* C11: on every board, square or not, Game::cells fails on no item and yields
\* the in-bounds positions in row-major order (y outer, x inner), each once
\* and each with the cell stored at that position.
C11_CellsRowMajor ==
    last.op = "cells" =>
        /\ pc # "UnwrapPanic"
        /\ last.ret = [k \in 1..(width * height) |->
                          <<(k - 1) % width, (k - 1) \div width, grid[k]>>]

\* the entries that a constraint list has for direction d
EntriesFor(constraints, d) == SelectSeq(constraints, LAMBDA e : e[1] = d)

\* what the list of position p must hold for direction d in grid g
ExpectedFor(g, p, d) ==
    IF \E q \in Positions : IsStep(p, d, q)
    THEN LET q == CHOOSE q \in Positions : IsStep(p, d, q)
         IN  IF CellAt(g, q).locked
             THEN <<<<d, ConnectsToward(g, q, reverse(d))>>>>
             ELSE <<>>
    ELSE <<<<d, FALSE>>>>

\* C12: get_cell_constraints(x, y) on an in-bounds position holds, for each
\* direction d, exactly (d, false) when the step in d leaves the grid, exactly
\* (d, b) with b = "the neighbour has an end toward (x, y)" when the neighbour
\* is locked, and nothing when the neighbour is unlocked; and a second call at
\* the same position, the grid being unchanged, returns the same list.
C12_Constraints ==
    /\ [](last.op = "get_cell_constraints" =>
            \A d \in CellOrientation :
                EntriesFor(last.ret, d) = ExpectedFor(grid, <<last.x, last.y>>, d))
    /\ [][last.op = "get_cell_constraints" /\ last'.op = "get_cell_constraints"
            /\ last'.x = last.x /\ last'.y = last.y /\ grid' = grid
          => last'.ret = last.ret]_vars

C12_Witness ==
    /\ last.op = "get_cell_constraints"
    /\ nops = 2
    /\ Len(last.ret) = 3
    /\ \E i, j, k \in DOMAIN last.ret :
        /\ last.ret[i][2]
        /\ ~last.ret[j][2]
            /\ (\E q \in Positions : IsStep(<<last.x, last.y>>, last.ret[j][1], q))
        /\ ~(\E q \in Positions : IsStep(<<last.x, last.y>>, last.ret[k][1], q))

----------------------------------------------------------------------------
(* Properties of CellOrientation and Cell (SpecCell) *)

\* the directions of a shape before rotation, as the claim lists them
ShapeDirections(version) ==
    CASE version = Single -> {North}
      [] version = Angle -> {North, East}
      [] version = Line -> {North, South}
      [] version = Triple -> {East, South, West}

\* the degree of a shape
ShapeDegree(version) ==
    CASE version = Single -> 1
      [] version = Angle -> 2
      [] version = Line -> 2
      [] version = Triple -> 3

\* C13: for each of the 16 (version, orientation) pairs connects returns the
\* directions of the shape, each turned by the orientation (ordinal sum modulo
\* 4), with no direction twice: 1, 2, 2, 3 directions for Single, Angle,
\* Line, Triple, whatever the orientation.
C13_Connects ==
    last.op = "connects" =>
        /\ Range(last.ret) =
            {(d + last.arg.orientation) % 4 : d \in ShapeDirections(last.arg.version)}
        /\ Range(last.ret) \subseteq CellOrientation
        /\ \A i, j \in DOMAIN last.ret : last.ret[i] = last.ret[j] => i = j
        /\ Len(last.ret) = ShapeDegree(last.arg.version)

C13_Witness ==
    /\ last.op = "connects"
    /\ last.arg.version = Triple
    /\ last.arg.orientation = West
    /\ last.ret = <<North, East, South>>

\* the value of the chain of calls h applied to direction a, computed on
\* ordinals: a rotate adds its argument, a reverse adds 2, modulo 4
RECURSIVE OrdinalSum(_)
OrdinalSum(h) == IF h = <<>> THEN 0 ELSE Head(h)[2] + OrdinalSum(Tail(h))

\* C14: rotate is addition modulo 4 on ordinals: a chain of rotations and
\* reversals ends on the ordinal sum modulo 4, so a.rotate(b).rotate(c) =
\* a.rotate(b.rotate(c)), a.rotate(North) = a, four rotations by East return
\* a, a.reverse().reverse() = a and a.reverse() # a.
C14_RotateGroup ==
    last.op \in {"rotate", "reverse"} =>
        /\ last.ret \in CellOrientation
        /\ last.ret = (last.x + OrdinalSum(last.arg)) % 4
        /\ (Len(last.arg) = 2 /\ last.arg[1][1] = "rotate" /\ last.arg[2][1] = "rotate"
                => last.ret = rotate(last.x, rotate(last.arg[1][2], last.arg[2][2])))
        /\ (last.arg = <<<<"rotate", North>>>> => last.ret = last.x)
        /\ (last.arg = <<<<"rotate", East>>, <<"rotate", East>>,
                         <<"rotate", East>>, <<"rotate", East>>>> => last.ret = last.x)
        /\ (last.arg = <<<<"reverse", 2>>, <<"reverse", 2>>>> => last.ret = last.x)
        /\ (last.arg = <<<<"reverse", 2>>>> => last.ret # last.x)

C14_Witness ==
    /\ last.op = "rotate"
    /\ last.x = West
    /\ last.arg = <<<<"rotate", East>>, <<"rotate", East>>,
                    <<"rotate", East>>, <<"rotate", East>>>>
    /\ last.ret = West

====
